---- MODULE Spec2Model ----
(***************************************************************************)
(* Model of src/main.py: the HTML fragment parser of class Planning        *)
(* (_parse_ord_section, _parse_elem, _parse_children), the python-docx     *)
(* renderer (docx, parse_elem, cycle_elem, get_text) and the markdown      *)
(* renderer (renderOrdinance).                                             *)
(*                                                                         *)
(* A Python str is a sequence of one-character strings.  Every Python      *)
(* value of the parsed tree is a record [k, v]: k names its kind (None,    *)
(* str, list, or the single key of a dict: "p", "ul", "li", "table") and v *)
(* holds the payload.  A raised exception is the value Raise.              *)
(***************************************************************************)
EXTENDS Integers, Sequences, FiniteSets, TLC

\* Bounds of the input universe.
MaxChildren == 3    \* direct children of a fragment made of simple elements
MaxListSize == 4    \* list items plus item children of a generated <ul>
MaxCols == 2        \* header cells of a generated table
MaxBodySize == 5    \* body rows plus body cells of a generated table

----------------------------------------------------------------------------
\* Python values

None == [k |-> "None", v |-> <<>>]

Raise == [k |-> "Raise", v |-> <<>>]

Str(s) == [k |-> "str", v |-> s]

List(xs) == [k |-> "list", v |-> xs]

Dict(key, val) == [k |-> key, v |-> val]

\* Python truth value: None, "" and [] are false, a one-key dict is true.
Truthy(x) ==
    CASE x.k = "None" -> FALSE
      [] x.k = "str" -> x.v # <<>>
      [] x.k = "list" -> x.v # <<>>
      [] OTHER -> TRUE

RECURSIVE Concat(_)
Concat(seqs) ==
    IF seqs = <<>> THEN <<>> ELSE Head(seqs) \o Concat(Tail(seqs))

\* sep.join(items) for Python strings
RECURSIVE Join(_, _)
Join(sep, items) ==
    IF items = <<>> THEN <<>>
    ELSE IF Len(items) = 1 THEN items[1]
    ELSE items[1] \o sep \o Join(sep, Tail(items))

\* s * n for a Python string
RECURSIVE Repeat(_, _)
Repeat(s, n) == IF n <= 0 THEN <<>> ELSE s \o Repeat(s, n - 1)

RaisedIn(xs) == \E i \in DOMAIN xs : xs[i].k = "Raise"

----------------------------------------------------------------------------
\* BeautifulSoup page elements

NavigableString(s) ==
    [type |-> "NavigableString", name |-> "None", string |-> s, children |-> <<>>]

Tag(n, kids) == [type |-> "Tag", name |-> n, string |-> <<>>, children |-> kids]

NoTag == [type |-> "NoneType", name |-> "None", string |-> <<>>, children |-> <<>>]

\* Tag.get_text() / Tag.text: the strings of the subtree, concatenated.
RECURSIVE elem_get_text(_)
elem_get_text(elem) ==
    IF elem.type = "NavigableString" THEN elem.string
    ELSE Concat([i \in DOMAIN elem.children |-> elem_get_text(elem.children[i])])

\* Tag.find_all(name): the descendants called name, in document order.
RECURSIVE find_all(_, _)
find_all(elem, name) ==
    Concat([i \in DOMAIN elem.children |->
              (IF elem.children[i].name = name THEN <<elem.children[i]>> ELSE <<>>)
              \o find_all(elem.children[i], name)])

\* Tag.find(name), also written elem.<name>: the first such descendant or None.
find(elem, name) ==
    LET all == find_all(elem, name) IN IF all = <<>> THEN NoTag ELSE all[1]

\* elem.<name>.next_siblings: what follows the first descendant called name
\* under that descendant's parent.
RECURSIVE next_siblings(_, _)
next_siblings(elem, name) ==
    LET kids == elem.children
        holds(i) == kids[i].name = name \/ find_all(kids[i], name) # <<>>
        hit == {i \in DOMAIN kids : holds(i)}
    IN  IF hit = {} THEN <<>>
        ELSE LET i == CHOOSE j \in hit : \A h \in hit : j <= h
             IN  IF kids[i].name = name THEN SubSeq(kids, i + 1, Len(kids))
                 ELSE next_siblings(kids[i], name)

----------------------------------------------------------------------------
\* Planning: the fragment parser

RECURSIVE _parse_elem(_), _parse_children(_)

\* _parse_children with the truth test on sub_child dropped.
_parse_children_keep_all(elem) ==
    LET results == [i \in DOMAIN elem.children |-> _parse_elem(elem.children[i])]
    IN  IF RaisedIn(results) THEN Raise
        ELSE IF Len(results) = 1 THEN results[1]
        ELSE IF Len(results) > 1 THEN List(results)
        ELSE None

\* _parse_children without the single-child collapse.
_parse_children_no_collapse(elem) ==
    LET results == [i \in DOMAIN elem.children |-> _parse_elem(elem.children[i])]
        cell_children == SelectSeq(results, Truthy)
    IN  IF RaisedIn(results) THEN Raise
        ELSE IF Len(cell_children) >= 1 THEN List(cell_children)
        ELSE None

_parse_children(elem) ==
    LET results == [i \in DOMAIN elem.children |-> _parse_elem(elem.children[i])]
        cell_children == SelectSeq(results, Truthy)
    IN  IF RaisedIn(results) THEN Raise
        ELSE IF Len(cell_children) = 1 THEN cell_children[1]
        ELSE IF Len(cell_children) > 1 THEN List(cell_children)
        ELSE None

\* The "ul" branch of _parse_elem.
parse_ul(elem) ==
    LET lis == SelectSeq(elem.children, LAMBDA point : point.name = "li")
        subs == [i \in DOMAIN lis |-> _parse_children(lis[i])]
        kept == SelectSeq(subs, Truthy)
    IN  IF RaisedIn(subs) THEN Raise
        ELSE Dict("ul", [i \in DOMAIN kept |-> Dict("li", kept[i])])

\* The cells of one row: each <th>/<td> through _parse_children.
parse_cells(row, name) ==
    LET cols == find_all(row, name)
    IN  [i \in DOMAIN cols |-> _parse_children(cols[i])]

\* The "table" branch of _parse_elem.  elem.tbody.tr raises AttributeError
\* when the table has no <tbody> or the <tbody> no <tr>.
parse_table(elem) ==
    LET tbody == find(elem, "tbody")
        tr == IF tbody = NoTag THEN NoTag ELSE find(tbody, "tr")
    IN  IF tbody = NoTag \/ tr = NoTag THEN Raise
        ELSE
          LET head == parse_cells(tr, "th")
              caption == IF find(elem, "caption") # NoTag
                         THEN Str(elem_get_text(find(elem, "caption")))
                         ELSE None
              rows == SelectSeq(next_siblings(tbody, "tr"),
                                LAMBDA row : row.name = "tr")
              cells == [r \in DOMAIN rows |-> parse_cells(rows[r], "td")]
          IN  IF RaisedIn(head) \/ \E r \in DOMAIN rows : RaisedIn(cells[r])
              THEN Raise
              ELSE Dict("table",
                        [header |-> SelectSeq(head, Truthy),
                         body |-> [r \in DOMAIN rows |-> SelectSeq(cells[r], Truthy)],
                         caption |-> caption])

\* _parse_elem without the test for an empty paragraph text.
_parse_elem_keep_empty(elem) ==
    IF elem.name = "ul" THEN parse_ul(elem)
    ELSE IF elem.name = "table" THEN parse_table(elem)
    ELSE IF elem.name = "p" THEN Dict("p", elem_get_text(elem))
    ELSE IF elem.name = "br" THEN None
    ELSE IF elem.type # "NavigableString" THEN Str(elem_get_text(elem))
    ELSE None

_parse_elem(elem) ==
    IF elem.name = "ul" THEN parse_ul(elem)
    ELSE IF elem.name = "table" THEN parse_table(elem)
    ELSE IF elem.name = "p" THEN
        LET text == elem_get_text(elem)
        IN  IF text # <<>> THEN Dict("p", text) ELSE None
    ELSE IF elem.name = "br" THEN None
    ELSE IF elem.type # "NavigableString" THEN Str(elem_get_text(elem))
    ELSE None

\* A Rule under construction: title = None stands for "no title key".
NewRule == [content |-> <<>>, title |-> None]

\* RuleStep closing the current rule at every heading, its content empty or not.
RuleStep_always_flush(st, child) ==
    IF st.raised THEN st
    ELSE IF child.name = "h3" THEN
        [rules |-> Append(st.rules, st.current_rule),
         current_rule |-> [content |-> <<>>, title |-> Str(elem_get_text(child))],
         raised |-> FALSE]
    ELSE
        LET content == _parse_elem(child)
        IN  IF content.k = "Raise" THEN [st EXCEPT !.raised = TRUE]
            ELSE IF Truthy(content)
            THEN [st EXCEPT !.current_rule.content = Append(@, content)]
            ELSE st

\* One iteration of the loop of _parse_ord_section over soup.children.
RuleStep(st, child) ==
    IF st.raised THEN st
    ELSE IF child.name = "h3" THEN
        LET flush == Len(st.current_rule.content) > 0
        IN  [rules |-> IF flush THEN Append(st.rules, st.current_rule) ELSE st.rules,
             current_rule |->
                 [content |-> IF flush THEN <<>> ELSE st.current_rule.content,
                  title |-> Str(elem_get_text(child))],
             raised |-> FALSE]
    ELSE
        LET content == _parse_elem(child)
        IN  IF content.k = "Raise" THEN [st EXCEPT !.raised = TRUE]
            ELSE IF Truthy(content)
            THEN [st EXCEPT !.current_rule.content = Append(@, content)]
            ELSE st

\* The end of _parse_ord_section: the last flush and the returned value.
RuleReturn(st) ==
    IF st.raised THEN Raise
    ELSE LET rules == IF Len(st.current_rule.content) > 0
                      THEN Append(st.rules, st.current_rule)
                      ELSE st.rules
         IN  IF rules # <<>> THEN List(rules) ELSE None

RuleStart == [rules |-> <<>>, current_rule |-> NewRule, raised |-> FALSE]

RECURSIVE RuleLoop(_, _)
RuleLoop(st, children) ==
    IF children = <<>> THEN st
    ELSE RuleLoop(RuleStep(st, Head(children)), Tail(children))

_parse_ord_section(soup) == RuleReturn(RuleLoop(RuleStart, soup.children))

----------------------------------------------------------------------------
\* The input universe: HTML fragments of the subset the program targets.

BSeq(S, n) == UNION {[1..m -> S] : m \in 0..n}

Soup(kids) == Tag("[document]", kids)

P(s) == Tag("p", IF s = <<>> THEN <<>> ELSE <<NavigableString(s)>>)

H3(s) == Tag("h3", <<NavigableString(s)>>)

BR == Tag("br", <<>>)

NL == NavigableString(<<"\n">>)

DIV(s) == Tag("div", IF s = <<>> THEN <<>> ELSE <<NavigableString(s)>>)

LI(kids) == Tag("li", kids)

UL(lis) == Tag("ul", lis)

TABLE(rows) == Tag("table", <<Tag("tbody", rows)>>)

SimpleElems ==
    {H3(<<"T">>), H3(<<"U">>), P(<<"a">>), P(<<"b">>), P(<<>>), BR, NL, DIV(<<"x">>)}

SimpleFrags == BSeq(SimpleElems, MaxChildren)

\* Children of a list item: paragraphs, a line break, nested lists.
ItemChild ==
    {P(<<"a">>), P(<<"b">>), P(<<>>), BR, UL(<<>>), UL(<<LI(<<P(<<"c">>)>>)>>)}

\* The sequences of <li> with (items + item children) = n.
RECURSIVE LiSeqs(_)
LiSeqs(n) ==
    IF n = 0 THEN {<<>>}
    ELSE UNION {{<<LI(kids)>> \o rest : kids \in [1..(m - 1) -> ItemChild],
                                        rest \in LiSeqs(n - m)} : m \in 1..n}

Uls == {UL(lis) : lis \in UNION {LiSeqs(n) : n \in 0..MaxListSize}}

HeaderChar == <<"A", "B", "C", "D", "E">>

Digit == <<"1", "2", "3", "4", "5", "6", "7", "8", "9">>

\* A header cell of column c and a data cell of body row r, column c: empty,
\* or one paragraph whose text names the cell's place in the HTML.
TH(c, full) == Tag("th", IF full THEN <<P(<<HeaderChar[c]>>)>> ELSE <<>>)

TD(r, c, full) == Tag("td", IF full THEN <<P(<<Digit[r], Digit[c]>>)>> ELSE <<>>)

\* Body shapes: sequences of rows, a row being the sequence of its cells'
\* fullness, with (rows + cells) = n.
RECURSIVE BodyMasks(_)
BodyMasks(n) ==
    IF n = 0 THEN {<<>>}
    ELSE UNION {{<<row>> \o rest : row \in [1..(m - 1) -> BOOLEAN],
                                   rest \in BodyMasks(n - m)} : m \in 1..n}

GridTable(hmask, bmask) ==
    TABLE(<<Tag("tr", [c \in DOMAIN hmask |-> TH(c, hmask[c])])>> \o
          [r \in DOMAIN bmask |->
              Tag("tr", [c \in DOMAIN bmask[r] |-> TD(r, c, bmask[r][c])])])

GridTables ==
    {GridTable(hmask, bmask) :
        hmask \in BSeq(BOOLEAN, MaxCols),
        bmask \in UNION {BodyMasks(n) : n \in 0..MaxBodySize}}

----------------------------------------------------------------------------
\* The Text Flattener

RECURSIVE get_text(_)
get_text(obj) ==
    IF obj.k = "list" THEN
        LET items == [i \in DOMAIN obj.v |-> get_text(obj.v[i])]
        IN  IF RaisedIn(items) THEN Raise
            ELSE Str(Join(<<" ">>, [i \in DOMAIN items |-> items[i].v]))
    ELSE IF obj.k = "p" THEN Str(obj.v)
    ELSE IF obj.k = "ul" THEN get_text(List(obj.v))
    ELSE IF obj.k = "li" THEN get_text(obj.v)
    ELSE IF obj.k = "table" THEN Str(<<>>)
    ELSE IF obj.k = "str" THEN
        \* iterating a str yields its characters; obj["p"] is a TypeError
        IF \E i \in DOMAIN obj.v : obj.v[i] = "p" THEN Raise ELSE Str(<<>>)
    ELSE Raise

----------------------------------------------------------------------------
\* The Document Renderer.  A container (the Document, or a table cell) is
\* its sequence of block items plus the flag "an exception was raised".  A
\* paragraph object is its index in the container's body, 0 for None.

Heading(text, level) == [k |-> "heading", text |-> text, level |-> level]

Para(style, runs) == [k |-> "paragraph", style |-> style, runs |-> runs]

Grid(rows, style) == [k |-> "table", rows |-> rows, style |-> style]

Document == [body |-> <<>>, error |-> FALSE, cell |-> FALSE]

\* A fresh table cell holds one empty paragraph.
NewCell == [body |-> <<Para("Normal", <<>>)>>, error |-> FALSE, cell |-> TRUE]

Failed(doc) == [doc EXCEPT !.error = TRUE]

add_paragraph(doc, text, style) ==
    [doc EXCEPT !.body = Append(@, Para(style, IF text = <<>> THEN <<>> ELSE <<text>>))]

add_run(doc, paragraph, text) ==
    [doc EXCEPT !.body[paragraph].runs = Append(@, text)]

\* Only the Document has add_heading; a table cell has not.
add_heading(doc, text, level) ==
    IF doc.cell THEN Failed(doc)
    ELSE [doc EXCEPT !.body = Append(@, Heading(text, level))]

\* cell.text = text
set_text(cell, text) == [cell EXCEPT !.body = <<Para("Normal", <<text>>)>>]

styles == <<"List Bullet", "List Bullet 2", "List Bullet 3">>

RECURSIVE parse_elem(_, _, _, _), cycle_elem(_, _, _, _), parse_each(_, _, _),
          cycle_rest(_, _, _)

\* cycle_elem handing the item's paragraph to every element of the list.
cycle_elem_shared(doc, obj, indent, paragraph) ==
    IF doc.error THEN doc
    ELSE IF obj.k = "list" THEN
        LET RECURSIVE all(_, _)
            all(d, items) ==
                IF items = <<>> THEN d
                ELSE all(cycle_elem(d, Head(items), indent, paragraph), Tail(items))
        IN  all(doc, obj.v)
    ELSE parse_elem(doc, obj, indent, paragraph)

cycle_elem(doc, obj, indent, paragraph) ==
    IF doc.error THEN doc
    ELSE IF obj.k = "list" THEN
        cycle_rest(cycle_elem(doc, obj.v[1], indent, paragraph), Tail(obj.v), indent)
    ELSE parse_elem(doc, obj, indent, paragraph)

\* for item in obj[1:]: cycle_elem(doc, item, indent=indent)
cycle_rest(doc, items, indent) ==
    IF items = <<>> THEN doc
    ELSE cycle_rest(cycle_elem(doc, Head(items), indent, 0), Tail(items), indent)

\* for elem in obj["ul"]: doc = parse_elem(doc, elem, indent)
parse_each(doc, elems, indent) ==
    IF elems = <<>> THEN doc
    ELSE parse_each(parse_elem(doc, Head(elems), indent, 0), Tail(elems), indent)

\* The "table" branch of parse_elem with the test on the row's length off by one.
render_table_short(doc, tbl, indent) ==
    LET d1 == IF tbl.caption.k # "None" THEN add_heading(doc, tbl.caption.v, 4)
              ELSE doc
        row_num == Len(tbl.body) + 1
        col_num == Len(tbl.header)
        head(c) == get_text(tbl.header[c])
        cellAt(row, c) ==
            IF row = 1 THEN set_text(NewCell, head(c).v)
            ELSE IF Len(tbl.body) > row - 2 /\ Len(tbl.body[row - 1]) > c
            THEN cycle_elem(NewCell, tbl.body[row - 1][c], indent, 1)
            ELSE NewCell
        rows == [row \in 1..row_num |-> [c \in 1..col_num |-> cellAt(row, c)]]
        raised == \/ \E c \in 1..col_num : head(c).k = "Raise"
                  \/ \E row \in 2..row_num, c \in 1..col_num : rows[row][c].error
    IN  IF d1.error THEN d1
        ELSE IF raised THEN Failed(d1)
        ELSE [d1 EXCEPT !.body = Append(@, Grid(rows, "LightShading-Accent1"))]

\* The "table" branch of parse_elem.  Rows and columns count from 1 here:
\* row 1 is the header row, row r + 1 renders body[r].
render_table(doc, tbl, indent) ==
    LET d1 == IF tbl.caption.k # "None" THEN add_heading(doc, tbl.caption.v, 4)
              ELSE doc
        row_num == Len(tbl.body) + 1
        col_num == Len(tbl.header)
        head(c) == get_text(tbl.header[c])
        cellAt(row, c) ==
            IF row = 1 THEN set_text(NewCell, head(c).v)
            ELSE IF Len(tbl.body) > row - 2 /\ Len(tbl.body[row - 1]) > c - 1
            THEN cycle_elem(NewCell, tbl.body[row - 1][c], indent, 1)
            ELSE NewCell
        rows == [row \in 1..row_num |-> [c \in 1..col_num |-> cellAt(row, c)]]
        raised == \/ \E c \in 1..col_num : head(c).k = "Raise"
                  \/ \E row \in 2..row_num, c \in 1..col_num : rows[row][c].error
    IN  IF d1.error THEN d1
        ELSE IF raised THEN Failed(d1)
        ELSE [d1 EXCEPT !.body = Append(@, Grid(rows, "LightShading-Accent1"))]

parse_elem(doc, obj, indent, paragraph) ==
    IF doc.error THEN doc
    ELSE IF obj.k \notin {"p", "ul", "li", "table"} THEN Failed(doc)
    ELSE IF obj.k = "p" THEN
        IF paragraph # 0 THEN add_run(doc, paragraph, obj.v)
        ELSE add_paragraph(doc, obj.v, "Normal")
    ELSE IF obj.k = "ul" THEN parse_each(doc, obj.v, indent)
    ELSE IF obj.k = "li" THEN
        LET style == IF indent >= Len(styles) THEN styles[Len(styles)]
                     ELSE styles[indent + 1]
            d1 == add_paragraph(doc, <<>>, style)
        IN  cycle_elem(d1, obj.v, indent + 1, Len(d1.body))
    ELSE render_table(doc, obj.v, indent)

RECURSIVE docx_contents(_, _), docx_rules(_, _)
docx_contents(doc, contents) ==
    IF contents = <<>> THEN doc
    ELSE docx_contents(parse_elem(doc, Head(contents), 0, 0), Tail(contents))

docx_rules(doc, division) ==
    IF division = <<>> \/ doc.error THEN doc
    ELSE LET section == Head(division)
             d1 == IF section.title.k # "None"
                   THEN add_heading(doc, section.title.v, 3)
                   ELSE doc
         IN  docx_rules(docx_contents(d1, section.content), Tail(division))

\* One iteration of the loop of docx() over content.items().
docx_division(doc, name, division) ==
    LET d1 == add_heading(doc, name, 2)
    IN  IF division.k # "list" THEN Failed(d1)   \* iterating None: TypeError
        ELSE docx_rules(d1, division.v)

----------------------------------------------------------------------------
\* The Markdown renderer: the functions nested in Planning.renderOrdinance.
\* match_type returns Str(render), or Raise where item.keys() is called on
\* a str.

RECURSIVE match_type(_, _, _)

\* ul(ul, multi_line, indent): the pair (line_list, multi_list).
md_ul(ul, multi_line, indent) ==
    LET one(i) == match_type(ul[i], multi_line, 0)
        deep(i) == match_type(ul[i], multi_line, indent + 4)
        line(i) == one(i).v \o <<" ", "<", "b", "r", " ", "/", ">">>
        bullet(i) == Repeat(<<" ">>, indent) \o <<" ", "-", " ">> \o deep(i).v
                     \o <<" ", "\n">>
    IN  IF \E i \in DOMAIN ul : one(i).k = "Raise" \/ deep(i).k = "Raise"
        THEN Raise
        ELSE [k |-> "tuple",
              line_list |-> Concat([i \in DOMAIN ul |-> line(i)]),
              multi_list |-> <<"\n">> \o Concat([i \in DOMAIN ul |-> bullet(i)])
                             \o <<"\n">>]

\* table(tbl)
md_table(tbl) ==
    LET caption == IF tbl.caption.k # "None"
                   THEN <<"#", "#", "#", " ">> \o tbl.caption.v
                        \o <<" ", "\n", " ", "\n">>
                   ELSE <<>>
        head(c) == match_type(tbl.header[c], FALSE, 0)
        cell(r, c) == match_type(tbl.body[r][c], FALSE, 0)
        header == <<"|">>
                  \o Concat([c \in DOMAIN tbl.header |->
                               <<" ">> \o head(c).v \o <<" ", " ", "|">>])
                  \o <<"\n", " ", "|">>
                  \o Concat([c \in DOMAIN tbl.header |-> <<" ", "-", "-", "-", " ", "|">>])
        row(r) == <<"|">>
                  \o Concat([c \in DOMAIN tbl.body[r] |->
                               <<" ">> \o cell(r, c).v \o <<" ", "|">>])
                  \o <<"\n">>
        body == Concat([r \in DOMAIN tbl.body |-> row(r)])
    IN  IF \/ \E c \in DOMAIN tbl.header : head(c).k = "Raise"
           \/ \E r \in DOMAIN tbl.body : \E c \in DOMAIN tbl.body[r] :
                  cell(r, c).k = "Raise"
        THEN Raise
        ELSE Str(<<"\n">> \o caption \o <<" ">> \o header \o <<" ", "\n", " ">>
                 \o body \o <<"\n">>)

match_type(item, multi_line, indent) ==
    IF item.k = "list" THEN
        LET items == [i \in DOMAIN item.v |-> match_type(item.v[i], multi_line, indent)]
            texts == [i \in DOMAIN items |-> items[i].v]
        IN  IF RaisedIn(items) THEN Raise
            ELSE IF multi_line THEN Str(Join(<<"\n", " ", " ">>, texts))
            ELSE Str(Join(<<"<", "b", "r", " ", "/", ">">>, texts))
    ELSE IF item.k \notin {"p", "ul", "li", "table"} THEN Raise
    ELSE IF item.k = "table" THEN md_table(item.v)
    ELSE IF item.k = "ul" THEN
        LET both == md_ul(item.v, multi_line, IF multi_line THEN indent ELSE 0)
        IN  IF both.k = "Raise" THEN Raise
            ELSE IF multi_line THEN Str(both.multi_list)
            ELSE Str(both.line_list)
    ELSE IF item.k = "p" THEN Str(item.v)
    ELSE Str(<<>>)      \* "Unexpected element"

\* The body of the loop of renderOrdinance over one section's rules.  bound
\* says whether the local name _ was assigned (it is only when renderOrdinance
\* itself called parseOrdinance); an unassigned _ is an UnboundLocalError.
render_items(ordinance, bound) ==
    IF ordinance.k # "list" THEN Raise      \* iterating None: TypeError
    ELSE
      LET contents(i) ==
              [j \in DOMAIN ordinance.v[i].content |->
                  match_type(ordinance.v[i].content[j], TRUE, 0)]
          bad(i) == \/ RaisedIn(contents(i))
                    \/ ordinance.v[i].title.k = "None" /\ ~bound
      IN  IF \E i \in DOMAIN ordinance.v : bad(i) THEN Raise
          ELSE List([i \in DOMAIN ordinance.v |->
                       [title |-> ordinance.v[i].title,
                        contents |-> [j \in DOMAIN contents(i) |-> contents(i)[j].v]]])

----------------------------------------------------------------------------
\* More of the input universe

\* A line break put before every child and after the last one, in the
\* fragment itself and inside every list, item, table, row and cell.
RECURSIVE InsertBr(_)
InsertBr(elem) ==
    IF elem.name \in {"[document]", "ul", "li", "table", "tbody", "tr", "td", "th"}
    THEN [elem EXCEPT !.children =
             Concat([i \in DOMAIN elem.children |-> <<BR, InsertBr(elem.children[i])>>])
             \o <<BR>>]
    ELSE elem

CAPTION(s) == Tag("caption", <<NavigableString(s)>>)

TR(cells) == Tag("tr", cells)

SpecialFrags ==
    { <<Tag("table", <<TR(<<TH(1, TRUE)>>), TR(<<TD(1, 1, TRUE)>>)>>)>>,
      <<TABLE(<<>>)>>,
      <<Tag("table", <<CAPTION(<<"C">>),
                       Tag("tbody", <<TR(<<TH(1, TRUE)>>), TR(<<TD(1, 1, TRUE)>>)>>)>>)>>,
      <<TABLE(<<TR(<<Tag("th", <<DIV(<<"x">>)>>)>>), TR(<<TD(1, 1, TRUE)>>)>>)>>,
      <<TABLE(<<TR(<<Tag("th", <<DIV(<<"p">>)>>)>>), TR(<<TD(1, 1, TRUE)>>)>>)>>,
      <<TABLE(<<TR(<<TH(1, TRUE)>>), TR(<<Tag("td", <<DIV(<<"x">>)>>)>>)>>)>>,
      <<TABLE(<<TR(<<TH(1, TRUE)>>),
                TR(<<Tag("td", <<P(<<"a">>), P(<<"b">>)>>)>>)>>)>>,
      <<TABLE(<<TR(<<TH(1, TRUE)>>),
                TR(<<Tag("td", <<UL(<<LI(<<P(<<"a">>), P(<<"b">>)>>)>>)>>)>>)>>)>>,
      <<TABLE(<<TR(<<Tag("th", <<NavigableString(<<"A">>)>>)>>),
                TR(<<TD(1, 1, TRUE)>>)>>)>>,
      <<DIV(<<>>)>>,
      <<H3(<<"T">>), DIV(<<>>)>>,
      <<UL(<<LI(<<DIV(<<"x">>)>>)>>)>>,
      <<UL(<<LI(<<P(<<"a">>), DIV(<<"x">>)>>)>>)>>,
      <<H3(<<"T">>), UL(<<LI(<<P(<<"a">>)>>), LI(<<P(<<"b">>)>>)>>), P(<<"b">>)>>,
      <<UL(<<LI(<<UL(<<LI(<<UL(<<LI(<<UL(<<LI(<<P(<<"a">>)>>)>>)>>)>>)>>)>>)>>)>>)>> }

\* Fragments that get line breaks interleaved.
BrBase ==
    {<<u>> : u \in {UL(lis) : lis \in UNION {LiSeqs(n) : n \in 0..(MaxListSize - 1)}}}
    \cup {<<GridTable(hmask, bmask)>> :
             hmask \in BSeq(BOOLEAN, MaxCols - 1),
             bmask \in UNION {BodyMasks(n) : n \in 0..(MaxBodySize - 2)}}
    \cup BSeq({H3(<<"T">>), P(<<"a">>), P(<<>>)}, MaxChildren - 1)

Fragments ==
    SimpleFrags
    \cup {<<u>> : u \in Uls}
    \cup {<<TABLE(<<TR(<<Tag("th", <<u>>)>>)>>)>> : u \in Uls}
    \cup {<<t>> : t \in GridTables}
    \cup {InsertBr(Soup(f)).children : f \in BrBase}
    \cup SpecialFrags

\* Fragments of the ordinances with two sections.
PairFrags == {<<>>, <<P(<<"a">>)>>, <<DIV(<<"x">>)>>, <<H3(<<"T">>), P(<<"b">>)>>}

Inputs == {<<f>> : f \in Fragments} \cup {<<f, g>> : f \in PairFrags, g \in PairFrags}

----------------------------------------------------------------------------
\* The program as a state machine

VARIABLES
    sections,            \* clause_json["ordinanceSections"]: the fragments, in order
    pc,                  \* where the program is
    caller,              \* who called parseOrdinance: "main" or "renderOrdinance"
    sec,                 \* the section the current loop is at
    child,               \* the child of soup.children _parse_ord_section is at
    st,                  \* rules and current_rule of _parse_ord_section
    ordinance_sections,  \* self.ordinance_sections, in the order of sections
    doc,                 \* the Document of docx()
    renders              \* the result of renderOrdinance

vars == <<sections, pc, caller, sec, child, st, ordinance_sections, doc, renders>>

\* The title of section i.
SectionName(i) == <<"S", Digit[i]>>

Init ==
    /\ sections \in Inputs
    /\ pc = "start"
    /\ caller = "none"
    /\ sec = 1
    /\ child = 1
    /\ st = RuleStart
    /\ ordinance_sections = <<>>
    /\ doc = Document
    /\ renders = <<>>

\* __main__ calls planning.parseOrdinance().
CallParseOrdinance ==
    /\ pc = "start"
    /\ pc' = "parse"
    /\ caller' = "main"
    /\ UNCHANGED <<sections, sec, child, st, ordinance_sections, doc, renders>>

\* renderOrdinance is called first: ordinance_sections does not exist yet and
\* it calls parseOrdinance itself, binding _.
CallRenderOrdinance ==
    /\ pc = "start"
    /\ pc' = "parse"
    /\ caller' = "renderOrdinance"
    /\ UNCHANGED <<sections, sec, child, st, ordinance_sections, doc, renders>>

\* _parse_ord_section at an <h3> child.
ParseHeading ==
    /\ pc = "parse"
    /\ child <= Len(sections[sec])
    /\ sections[sec][child].name = "h3"
    /\ st' = RuleStep(st, sections[sec][child])
    /\ child' = child + 1
    /\ UNCHANGED <<sections, pc, caller, sec, ordinance_sections, doc, renders>>

\* _parse_ord_section at any other child; an exception of _parse_elem ends
\* the program.
ParseContent ==
    /\ pc = "parse"
    /\ child <= Len(sections[sec])
    /\ sections[sec][child].name # "h3"
    /\ st' = RuleStep(st, sections[sec][child])
    /\ child' = child + 1
    /\ pc' = IF st'.raised THEN "error" ELSE pc
    /\ UNCHANGED <<sections, caller, sec, ordinance_sections, doc, renders>>

\* _parse_ord_section returns; parseOrdinance stores the result and goes on
\* to the next section.
ParseReturn ==
    /\ pc = "parse"
    /\ child > Len(sections[sec])
    /\ ordinance_sections' = Append(ordinance_sections, RuleReturn(st))
    /\ IF sec = Len(sections)
       THEN pc' = "parsed" /\ UNCHANGED <<sec, child, st>>
       ELSE pc' = pc /\ sec' = sec + 1 /\ child' = 1 /\ st' = RuleStart
    /\ UNCHANGED <<sections, caller, doc, renders>>

\* __main__ calls docx(planning.ordinance_sections).
DocxStart ==
    /\ pc = "parsed"
    /\ caller = "main"
    /\ pc' = "docx"
    /\ sec' = 1
    /\ doc' = Document
    /\ UNCHANGED <<sections, caller, child, st, ordinance_sections, renders>>

\* One section of docx(); an exception ends the program before doc.save.
DocxDivision ==
    /\ pc = "docx"
    /\ sec <= Len(ordinance_sections)
    /\ doc' = docx_division(doc, SectionName(sec), ordinance_sections[sec])
    /\ sec' = sec + 1
    /\ pc' = IF doc'.error THEN "error" ELSE pc
    /\ UNCHANGED <<sections, caller, child, st, ordinance_sections, renders>>

\* doc.save("test.docx")
DocxSave ==
    /\ pc = "docx"
    /\ sec > Len(ordinance_sections)
    /\ pc' = "saved"
    /\ UNCHANGED <<sections, caller, sec, child, st, ordinance_sections, doc, renders>>

\* The loop of renderOrdinance over self.ordinance_sections.
RenderOrdinance ==
    /\ pc = "parsed"
    /\ LET all == [i \in DOMAIN ordinance_sections |->
                     render_items(ordinance_sections[i], caller = "renderOrdinance")]
       IN  IF RaisedIn(all)
           THEN pc' = "error" /\ UNCHANGED renders
           ELSE pc' = "rendered" /\ renders' = all
    /\ UNCHANGED <<sections, caller, sec, child, st, ordinance_sections, doc>>

Next ==
    \/ CallParseOrdinance
    \/ CallRenderOrdinance
    \/ ParseHeading
    \/ ParseContent
    \/ ParseReturn
    \/ DocxStart
    \/ DocxDivision
    \/ DocxSave
    \/ RenderOrdinance

Spec == Init /\ [][Next]_vars

----------------------------------------------------------------------------
\* Observers used by the properties

\* The sections of an ordinance parseOrdinance has just parsed.
Parsed == IF pc = "parsed" THEN DOMAIN ordinance_sections ELSE {}

\* All content nodes of all parsed sections, in document order.
AllContents ==
    Concat([i \in DOMAIN ordinance_sections |->
              IF ordinance_sections[i].k # "list" THEN <<>>
              ELSE Concat([j \in DOMAIN ordinance_sections[i].v |->
                             ordinance_sections[i].v[j].content])])

\* An HTML child counts as recognized when it converts to a non-empty value.
Recognized(e) ==
    /\ e.type = "Tag"
    /\ \/ e.name \in {"ul", "table"}
       \/ e.name # "br" /\ elem_get_text(e) # <<>>

RecognizedKids(elem) == SelectSeq(elem.children, Recognized)

\* The texts of the Paragraph nodes under a node, in document order.
RECURSIVE AllParaTexts(_)
AllParaTexts(node) ==
    IF node.k = "p" THEN <<node.v>>
    ELSE IF node.k = "li" THEN AllParaTexts(node.v)
    ELSE IF node.k \in {"ul", "list"}
    THEN Concat([i \in DOMAIN node.v |-> AllParaTexts(node.v[i])])
    ELSE <<>>

\* The node is made of Paragraphs, Lists, list items and sequences only.
RECURSIVE ListOnly(_)
ListOnly(node) ==
    IF node.k = "p" THEN TRUE
    ELSE IF node.k = "li" THEN ListOnly(node.v)
    ELSE IF node.k \in {"ul", "list"} THEN \A i \in DOMAIN node.v : ListOnly(node.v[i])
    ELSE FALSE

\* The list items under a node in document order, each with its nesting depth.
RECURSIVE ItemsOf(_, _)
ItemsOf(node, depth) ==
    IF node.k = "li" THEN <<[item |-> node.v, depth |-> depth]>> \o ItemsOf(node.v, depth + 1)
    ELSE IF node.k \in {"ul", "list"}
    THEN Concat([i \in DOMAIN node.v |-> ItemsOf(node.v[i], depth)])
    ELSE <<>>

\* The direct children of a list item or cell.
KidsOf(item) == IF item.k = "list" THEN item.v ELSE <<item>>

\* Every list item and table cell under a node.
RECURSIVE ItemValues(_)
ItemValues(node) ==
    IF node.k = "li" THEN <<node.v>> \o ItemValues(node.v)
    ELSE IF node.k \in {"ul", "list"}
    THEN Concat([i \in DOMAIN node.v |-> ItemValues(node.v[i])])
    ELSE IF node.k = "table"
    THEN LET cells == node.v.header \o Concat(node.v.body)
         IN  cells \o Concat([i \in DOMAIN cells |-> ItemValues(cells[i])])
    ELSE <<>>

\* The run texts of a container's paragraphs, in order.
CellTexts(cell) ==
    Concat([i \in DOMAIN cell.body |->
              IF cell.body[i].k = "paragraph" THEN cell.body[i].runs ELSE <<>>])

IsBullet(b) == b.k = "paragraph" /\ \E i \in DOMAIN styles : b.style = styles[i]

IsPlain(b) == b.k = "paragraph" /\ b.style = "Normal"

IsGrid(b) == b.k = "table"

IsSubstring(t, str) == \E i \in 0..(Len(str) - Len(t)) : SubSeq(str, i + 1, i + Len(t)) = t

RECURSIVE StripBr(_)
StripBr(elem) ==
    [elem EXCEPT !.children =
        LET kept == SelectSeq(elem.children, LAMBDA c : c.name # "br")
        IN  [i \in DOMAIN kept |-> StripBr(kept[i])]]

----------------------------------------------------------------------------
\* C1

\* Position i of the fragment holds non-empty content.
NonEmptyAt(frag, i) == frag[i].name # "h3" /\ Recognized(frag[i])

\* The headings followed by non-empty content before the next heading.
HeadingsWithContent(frag) ==
    {i \in DOMAIN frag :
        /\ frag[i].name = "h3"
        /\ \E j \in DOMAIN frag :
              /\ j > i
              /\ NonEmptyAt(frag, j)
              /\ \A m \in (i + 1)..(j - 1) : frag[m].name # "h3"}

LeadingContent(frag) ==
    \E j \in DOMAIN frag :
        NonEmptyAt(frag, j) /\ \A m \in 1..(j - 1) : frag[m].name # "h3"

ExpectedRuleCount(frag) ==
    Cardinality(HeadingsWithContent(frag)) + (IF LeadingContent(frag) THEN 1 ELSE 0)

----------------------------------------------------------------------------
\* C2

OnlyParagraphs(frag) == frag # <<>> /\ \A i \in DOMAIN frag : frag[i].name = "p"

ParagraphText(p) == IF p.children = <<>> THEN <<>> ELSE p.children[1].string

\* The Paragraph nodes of the paragraphs with non-empty text, in order.
ParagraphNodes(frag) ==
    LET full == SelectSeq(frag, LAMBDA p : ParagraphText(p) # <<>>)
    IN  [i \in DOMAIN full |-> Dict("p", ParagraphText(full[i]))]

OneUntitledRule(r, content) ==
    /\ r.k = "list"
    /\ Len(r.v) = 1
    /\ r.v[1].title = None
    /\ r.v[1].content = content

\* C2 as claimed: every fragment of paragraphs only yields exactly one
\* title-less Rule holding the non-empty paragraphs in order.
C2_Original ==
    \A i \in Parsed :
        OnlyParagraphs(sections[i])
            => OneUntitledRule(ordinance_sections[i], ParagraphNodes(sections[i]))

\* C2 amended: a fragment of paragraphs only yields exactly one title-less
\* Rule holding the non-empty paragraphs in order when at least one paragraph
\* has non-empty text, and None (no rules) when none has.
C2_OneRuleIfAnyText ==
    \A i \in Parsed :
        OnlyParagraphs(sections[i])
            => IF ParagraphNodes(sections[i]) # <<>>
               THEN OneUntitledRule(ordinance_sections[i], ParagraphNodes(sections[i]))
               ELSE ordinance_sections[i] = None

C2_Witness ==
    \E i \in Parsed :
        /\ sections[i] = <<P(<<"b">>), P(<<>>), P(<<"a">>)>>
        /\ OneUntitledRule(ordinance_sections[i],
                           <<Dict("p", <<"b">>), Dict("p", <<"a">>)>>)

----------------------------------------------------------------------------
\* C3

\* C3: the Document Renderer, run over what the parser returned, never ends
\* in an exception.
C3_NoException == ~doc.error

----------------------------------------------------------------------------
\* C4

\* What the collapsing rule gives for an <li>, <th> or <td>.
Collapsed(elem) ==
    LET kids == RecognizedKids(elem)
    IN  IF Len(kids) = 0 THEN None
        ELSE IF Len(kids) = 1 THEN _parse_elem(kids[1])
        ELSE List([i \in DOMAIN kids |-> _parse_elem(kids[i])])

\* The elements of a row or list that keep a place in their parent.
Present(elems) == SelectSeq(elems, LAMBDA e : RecognizedKids(e) # <<>>)

\* The items or cells kept for a sequence of <li>, <th> or <td> are the
\* collapses of those with a recognized child, in order.
AllCollapsed(elems, values) ==
    \A present \in {Present(elems)} :
        /\ Len(values) = Len(present)
        /\ \A c \in DOMAIN present : values[c] = Collapsed(present[c])

\* The node of a top-level <ul> or <table> agrees with the collapsing rule.
NodeCollapsed(elem, node) ==
    IF elem.name = "ul" THEN
        /\ node.k = "ul"
        /\ \A items \in {[i \in DOMAIN node.v |-> node.v[i].v]} :
              AllCollapsed(SelectSeq(elem.children, LAMBDA e : e.name = "li"), items)
        /\ \A i \in DOMAIN node.v : node.v[i].k = "li"
    ELSE
        \A trs \in {find_all(elem, "tr")} :
            /\ node.k = "table"
            /\ \A tr \in {trs[1]} : AllCollapsed(find_all(tr, "th"), node.v.header)
            /\ Len(node.v.body) = Len(trs) - 1
            /\ \A r \in DOMAIN node.v.body : \A tr \in {trs[r + 1]} :
                  AllCollapsed(find_all(tr, "td"), node.v.body[r])

\* C4: a list item or cell with one recognized child is that child's node,
\* with several it is the sequence of their nodes in order, with none it is
\* absent from its list, header or row; so no item or cell of a parsed tree
\* is a sequence of fewer than two nodes.
C4_Collapse ==
    /\ pc = "parsed" =>
          \A n \in DOMAIN AllContents :
              LET items == ItemValues(AllContents[n])
              IN  \A m \in DOMAIN items :
                     /\ items[m] # None
                     /\ items[m].k = "list" =>
                           /\ Len(items[m].v) >= 2
                           /\ \A i \in DOMAIN items[m].v : items[m].v[i].k # "list"
    /\ \A i \in Parsed :
          (Len(sections[i]) = 1 /\ sections[i][1].name \in {"ul", "table"})
              => /\ ordinance_sections[i].k = "list"
                 /\ Len(ordinance_sections[i].v) = 1
                 /\ Len(ordinance_sections[i].v[1].content) = 1
                 /\ NodeCollapsed(sections[i][1], ordinance_sections[i].v[1].content[1])

\* A list of an item with one recognized child (and a line break) and an item
\* with none was parsed.
C4_Witness ==
    \E i \in Parsed :
        /\ sections[i] = <<UL(<<LI(<<P(<<"a">>), BR>>), LI(<<>>)>>)>>
        /\ AllContents = <<Dict("ul", <<Dict("li", Dict("p", <<"a">>))>>)>>

----------------------------------------------------------------------------
\* C5

\* The node is made of Paragraph, List and Table nodes only: no raw string.
RECURSIVE NodeOnly(_)
NodeOnly(node) ==
    IF node.k = "p" THEN TRUE
    ELSE IF node.k = "li" THEN NodeOnly(node.v)
    ELSE IF node.k \in {"ul", "list"} THEN \A i \in DOMAIN node.v : NodeOnly(node.v[i])
    ELSE IF node.k = "table"
    THEN \A cells \in {node.v.header \o Concat(node.v.body)} :
            \A i \in DOMAIN cells : NodeOnly(cells[i])
    ELSE FALSE

\* C5: every Table node is rendered as a grid of len(body) + 1 rows and
\* len(header) columns; row 0 holds the flattened header texts; cell (r, c)
\* holds the content of body[r - 1][c] where that row has a cell c and is
\* left blank where it has none; and docx() raises nothing when every section
\* has rules and they hold Paragraph, List and Table nodes only.
C5_Grid ==
    /\ doc.error =>
          \/ \E i \in DOMAIN ordinance_sections : ordinance_sections[i].k # "list"
          \/ \E n \in DOMAIN AllContents : ~NodeOnly(AllContents[n])
    /\ pc = "saved" =>
          LET tables == SelectSeq(AllContents, LAMBDA n : n.k = "table")
              grids == SelectSeq(doc.body, IsGrid)
          IN  /\ Len(grids) = Len(tables)
              /\ \A i \in DOMAIN tables :
                    LET H == tables[i].v.header
                        B == tables[i].v.body
                        rows == grids[i].rows
                    IN  /\ Len(rows) = Len(B) + 1
                        /\ \A r \in DOMAIN rows : Len(rows[r]) = Len(H)
                        /\ \A c \in DOMAIN H : CellTexts(rows[1][c]) = <<get_text(H[c]).v>>
                        /\ \A r \in DOMAIN B : \A c \in DOMAIN H :
                              IF c <= Len(B[r])
                              THEN CellTexts(rows[r + 1][c]) = AllParaTexts(B[r][c])
                              ELSE rows[r + 1][c] = NewCell

\* The table of header [A, B] and body [[11, 12], [21]] was rendered.
C5_Witness ==
    /\ pc = "saved"
    /\ sections = << <<GridTable(<<TRUE, TRUE>>, <<<<TRUE, TRUE>>, <<TRUE>>>>)>> >>
    /\ LET grid == doc.body[2].rows
       IN  /\ Len(grid) = 3
           /\ Len(grid[3]) = 2
           /\ CellTexts(grid[2][1]) = <<<<"1", "1">>>>
           /\ grid[3][2] = NewCell

----------------------------------------------------------------------------
\* C6

\* C6: the result of _parse_ord_section, an exception included, is the result
\* for the same fragment with every line break removed.
C6_BrIgnored ==
    /\ \A i \in Parsed :
          ordinance_sections[i] = _parse_ord_section(StripBr(Soup(sections[i])))
    /\ (pc = "error" /\ st.raised)
          => _parse_ord_section(StripBr(Soup(sections[sec]))) = Raise

\* A table with line breaks around and inside its rows and cells was parsed.
C6_Witness ==
    \E i \in Parsed :
        /\ sections[i] = InsertBr(Soup(<<GridTable(<<TRUE>>, <<<<TRUE>>>>)>>)).children
        /\ \E c \in DOMAIN find_all(Soup(sections[i]), "td") :
              find_all(Soup(sections[i]), "td")[c].children[1] = BR
        /\ AllContents = <<Dict("table", [header |-> <<Dict("p", <<"A">>)>>,
                                          body |-> <<<<Dict("p", <<"1", "1">>)>>>>,
                                          caption |-> None])>>

----------------------------------------------------------------------------
\* C7

\* C7: the flattened text of a header cell that is a List holding Paragraphs
\* only (nested lists, empty ones too, allowed) is the paragraph texts joined
\* by single spaces.
C7_FlattenList ==
    pc = "saved" =>
        LET tables == SelectSeq(AllContents, LAMBDA n : n.k = "table")
            grids == SelectSeq(doc.body, IsGrid)
        IN  \A i \in DOMAIN tables : \A c \in DOMAIN tables[i].v.header :
                LET cell == tables[i].v.header[c]
                IN  (cell.k = "ul" /\ ListOnly(cell) /\ AllParaTexts(cell) # <<>>)
                       => CellTexts(grids[i].rows[1][c])
                            = <<Join(<<" ">>, AllParaTexts(cell))>>

----------------------------------------------------------------------------
\* C8

\* C8: the multi-line rendering of a List node holds the text of every
\* Paragraph inside the list.
C8_ListRendered ==
    pc = "rendered" =>
        \A i \in DOMAIN renders : \A j \in DOMAIN renders[i].v :
            \A n \in DOMAIN renders[i].v[j].contents :
                LET node == ordinance_sections[i].v[j].content[n]
                    texts == AllParaTexts(node)
                IN  node.k = "ul"
                      => \A t \in DOMAIN texts :
                            IsSubstring(texts[t], renders[i].v[j].contents[n])

----------------------------------------------------------------------------
\* C9

\* The documents of top-level Lists of Paragraphs only.
ListDocument == pc = "saved" /\ \A n \in DOMAIN AllContents :
                    AllContents[n].k = "ul" /\ ListOnly(AllContents[n])

AllItems == Concat([n \in DOMAIN AllContents |-> ItemsOf(AllContents[n], 0)])

BulletStyle(depth) == IF depth >= Len(styles) THEN styles[Len(styles)] ELSE styles[depth + 1]

ParaTextsOf(kids) ==
    Concat([i \in DOMAIN kids |-> IF kids[i].k = "p" THEN <<kids[i].v>> ELSE <<>>])

\* The Paragraph children of list items that are not their item's first child.
AdditionalParas ==
    Concat([n \in DOMAIN AllItems |-> ParaTextsOf(Tail(KidsOf(AllItems[n].item)))])

\* C9 as claimed: one styled paragraph per list item, holding as runs all
\* the Paragraph children of the item, and no Paragraph child of an item in a
\* paragraph of its own.
C9_Original ==
    ListDocument =>
        /\ SelectSeq(doc.body, IsBullet)
             = [n \in DOMAIN AllItems |->
                  Para(BulletStyle(AllItems[n].depth), ParaTextsOf(KidsOf(AllItems[n].item)))]
        /\ SelectSeq(doc.body, IsPlain) = <<>>

\* C9 amended: one styled paragraph per list item; only the item's first
\* child is emitted into it, so it holds one run when that child is a
\* Paragraph and none otherwise, and every additional Paragraph child of the
\* item starts a new paragraph of its own.
C9_FirstChildOnly ==
    ListDocument =>
        /\ SelectSeq(doc.body, IsBullet)
             = [n \in DOMAIN AllItems |->
                  Para(BulletStyle(AllItems[n].depth),
                       ParaTextsOf(<<Head(KidsOf(AllItems[n].item))>>))]
        /\ SelectSeq(doc.body, IsPlain)
             = [n \in DOMAIN AdditionalParas |-> Para("Normal", <<AdditionalParas[n]>>)]

C9_Witness ==
    /\ pc = "saved"
    /\ sections = << <<UL(<<LI(<<P(<<"a">>), P(<<"b">>)>>)>>)>> >>
    /\ doc.body = <<Heading(SectionName(1), 2),
                    Para("List Bullet", <<<<"a">>>>),
                    Para("Normal", <<<<"b">>>>)>>

----------------------------------------------------------------------------
\* C10

\* The cells of the table hold paragraphs only, or nothing.
ParagraphCells(table) ==
    LET cells == find_all(table, "th") \o find_all(table, "td")
    IN  \A i \in DOMAIN cells : \A j \in DOMAIN cells[i].children :
            cells[i].children[j].name = "p"

\* C10: the content of the c-th <td> of a body row is in grid column c of
\* that row, and the text of the c-th <th> heads that column, whatever the
\* cells before them hold.
C10_Columns ==
    (pc = "saved" /\ Len(sections) = 1 /\ Len(sections[1]) = 1
       /\ sections[1][1].name = "table" /\ Len(SelectSeq(doc.body, IsGrid)) = 1
       /\ ParagraphCells(sections[1][1]))
    =>  LET trs == find_all(sections[1][1], "tr")
            ths == find_all(trs[1], "th")
            rows == SelectSeq(doc.body, IsGrid)[1].rows
        IN  \A r \in 2..Len(trs) :
                LET tds == find_all(trs[r], "td")
                IN  \A c \in DOMAIN tds :
                       (/\ c <= Len(ths)
                        /\ RecognizedKids(ths[c]) # <<>>
                        /\ RecognizedKids(tds[c]) # <<>>)
                          => /\ c <= Len(rows[r])
                             /\ CellTexts(rows[r][c]) = AllParaTexts(Collapsed(tds[c]))
                             /\ CellTexts(rows[1][c]) = <<elem_get_text(ths[c])>>

====
